---- MODULE Spec2Model ----
(***************************************************************************)
(* A model of data_utils.py: the dialogue reformatter (rm_one_way_conv,    *)
(* create_my_dataset), the vocabulary builder and loader                   *)
(* (create_vocabulary, initialize_vocabulary) and the corpus tokenizer     *)
(* (sentence_to_token_ids, data_to_token_ids).                             *)
(*                                                                         *)
(* Files are sequences.  A .tsv file is a sequence of rows; a row is the   *)
(* speaker id of its second field and its number of tab-separated fields.  *)
(* The text of field c (counted from 0, as the code indexes it) of row r   *)
(* of file f is the token Field(f, r, c): every field holds a text of its  *)
(* own, so an output line tells which fields it was built from.  Every     *)
(* row is taken to end with a newline, so that [:-1] removes exactly it.   *)
(***************************************************************************)
EXTENDS Integers, Sequences, FiniteSets, TLC

\* ---------------------------------------------------------------- bounds
MaxFiles == 2
MaxRows == 3
LongRows == 4
MaxLines == 2
MaxFragments == 2
MaxVocabulary == 8
StepFiles == 1
StepRows == 3
StepLines == 1

\* ------------------------------------------------------------- variables
VARIABLES
    pc,             \* where the running function stands
    marker,         \* dialogs_path/.one_way_conv_removed exists
    tsv,            \* the content of each .tsv path
    disk,           \* the .tsv paths that exist
    present,        \* the output paths that exist
    text,           \* the content of each output path
    files,          \* create_my_dataset: files (the glob's list)
    count,          \* create_my_dataset: count
    str_buffer,     \* create_my_dataset: str_buffer
    total_line,     \* create_my_dataset: total_line
    last_person,    \* create_my_dataset: last_person
    file_to_write,  \* create_my_dataset: file_to_write
    row,            \* create_my_dataset: row
    pos,            \* rows of the open .tsv file already read
    split,          \* create_my_dataset: split
    alternations,   \* history: speaker alternations the scan has detected
    data_file,      \* the content of data_path: lines of fragments
    max_vocabulary_size,
    normalize_digits,
    vocab_file,     \* the content of vocabulary_path: its lines
    vocab,          \* initialize_vocabulary: vocab
    rev_vocab,      \* initialize_vocabulary: rev_vocab
    ids_file,       \* the content of target_path: its lines of token ids
    step,           \* the function that was called
    ran,            \* history: the functions that have returned
    changed         \* history: the inputs were changed after a function returned

fsVars == <<marker, tsv, disk, present, text>>
scanVars == <<files, count, str_buffer, total_line, last_person, file_to_write,
              row, pos, split, alternations>>
argVars == <<data_file, max_vocabulary_size, normalize_digits>>
vocabVars == <<vocab_file, vocab, rev_vocab, ids_file>>
callVars == <<step, ran, changed>>
restVars == <<argVars, vocabVars, callVars>>

vars == <<pc, fsVars, scanVars, argVars, vocabVars, callVars>>

\* ----------------------------------------------------------------- texts
NL == <<0, 0, 0>>
SP == <<0, 0, 1>>
Field(f, r, c) == <<f, r, c>>

Speakers == {"A", "B"}

\* A row: its speaker id and its number of tab-separated fields.  An empty
\* line splits into one (empty) field and has no speaker id.
EmptyRow == [sp |-> "", nf |-> 1]
RowKinds == {[sp |-> s, nf |-> n] : s \in Speakers, n \in 2..4} \cup {EmptyRow}
FullRows == {[sp |-> s, nf |-> 4] : s \in Speakers} \cup {[sp |-> "A", nf |-> 2]}
StepRowKinds == {[sp |-> s, nf |-> 4] : s \in Speakers}

SeqsUpTo(S, n) == UNION {[1..k -> S] : k \in 0..n}

TsvPaths == 1..MaxFiles
OutPaths == {"train_enc", "train_dec", "test_enc", "test_dec", "enc_tmp", "dec_tmp"}

Min(a, b) == IF a < b THEN a ELSE b

\* ------------------------------------------------------- rm_one_way_conv
\* line.split('\t')[1]: the second field, with the line's newline when it
\* is the last field of the line.
PersonField(r) == <<r.sp, r.nf = 2>>

Persons(f) == {PersonField(tsv[f][i]) : i \in 1..Len(tsv[f])}

\* A line without a tab has no second field: line_split[1] raises.
RaisesInFilter(f) == \E i \in 1..Len(tsv[f]) : tsv[f][i].nf < 2

\* What rm_one_way_conv leaves: the marker, the .tsv paths, and whether it
\* raised.  The files are visited in the glob's order (ascending paths); a
\* file visited before the one that raises is already removed.
RmOneWayConv ==
    IF marker
    THEN [marker |-> TRUE, disk |-> disk, raised |-> FALSE]
    ELSE LET bad == {f \in disk : RaisesInFilter(f)}
             oneway(F) == {f \in F : Cardinality(Persons(f)) < 2}
         IN  IF bad = {}
             THEN [marker |-> TRUE, disk |-> disk \ oneway(disk), raised |-> FALSE]
             ELSE LET fb == CHOOSE f \in bad : \A g \in bad : f <= g
                  IN  [marker |-> FALSE,
                       disk |-> disk \ oneway({f \in disk : f < fb}),
                       raised |-> TRUE]

\* rm_one_way_conv called on its own.
RmOneWayConvStep ==
    /\ pc = "rm_one_way_conv"
    /\ LET res == RmOneWayConv
       IN  /\ marker' = res.marker
           /\ disk' = res.disk
           /\ pc' = IF res.raised THEN "crashed" ELSE "done"
    /\ UNCHANGED <<tsv, present, text, scanVars, restVars>>

\* ----------------------------------------------------- create_my_dataset
\* A variant that tests for the temporary files, which are removed at the end.
DatasetCreatedTmp == "enc_tmp" \in present /\ "dec_tmp" \in present

\* train_enc_exist and train_dec_exist
DatasetCreated == "train_enc" \in present /\ "train_dec" \in present

RECURSIVE SortedSeq(_)
SortedSeq(S) ==
    IF S = {} THEN <<>>
    ELSE LET m == CHOOSE x \in S : \A y \in S : x <= y
         IN  <<m>> \o SortedSeq(S \ {m})

Write(t, path, s) == [t EXCEPT ![path] = @ \o s]

EncDec(i) == IF i = 0 THEN "enc_tmp" ELSE "dec_tmp"

\* A variant that lets rows of two fields through.
TooShortBelow2(r) == r.nf < 2

\* len(line) < 3
TooShort(r) == r.nf < 3

\* line[3], the message of a row of four fields
MessageColumn == 3

\* A variant that reads every row at index 3.
ContinuationFixed == MessageColumn

\* line[row], the column of a same-speaker row before the first alternation
ContinuationColumn == row

\* A variant that always turns to the decoder file.
ToggleTo1(i) == 1

\* (file_to_write+1) % 2
Toggle(i) == (i + 1) % 2

AlreadyCreated ==
    /\ pc = "create_my_dataset"
    /\ DatasetCreated
    /\ pc' = "done"
    /\ UNCHANGED <<fsVars, scanVars, restVars>>

FilterCall ==
    /\ pc = "create_my_dataset"
    /\ ~DatasetCreated
    /\ LET res == RmOneWayConv
       IN  /\ marker' = res.marker
           /\ disk' = res.disk
           /\ pc' = IF res.raised THEN "crashed" ELSE "glob"
    /\ UNCHANGED <<tsv, present, text, scanVars, restVars>>

OpenOutputs ==
    /\ pc = "glob"
    /\ files' = SortedSeq(disk)
    /\ count' = 1
    /\ present' = present \cup {"enc_tmp", "dec_tmp"}
    /\ text' = [text EXCEPT !["enc_tmp"] = <<>>, !["dec_tmp"] = <<>>]
    /\ str_buffer' = <<>>
    /\ total_line' = 0
    /\ pc' = "for_tsv"
    /\ UNCHANGED <<marker, tsv, disk, last_person, file_to_write, row, pos,
                   split, alternations, restVars>>

\* The first row of the next file: its speaker, the message column, and its
\* message written to the encoder file.  An empty file, or a first row
\* without the field read, raises IndexError.
OpenTsv ==
    /\ pc = "for_tsv"
    /\ count <= Len(files)
    /\ LET f == files[count]
           rows == tsv[f]
       IN  IF Len(rows) = 0 \/ rows[1].nf < 3
           THEN /\ pc' = "crashed"
                /\ UNCHANGED <<text, last_person, row, pos>>
           ELSE /\ last_person' = rows[1].sp
                /\ row' = IF rows[1].nf = 3 THEN 2 ELSE 3
                /\ text' = Write(text, EncDec(0), <<Field(f, 1, row')>>)
                /\ pos' = 1
                /\ pc' = "while"
    /\ file_to_write' = 0
    /\ UNCHANGED <<marker, tsv, disk, present, files, count, str_buffer,
                   total_line, split, alternations, restVars>>

\* One turn of "while not both_found".  At the end of the file readline()
\* gives '', which splits into one field.
WhileStep ==
    /\ pc = "while"
    /\ LET f == files[count]
           rows == tsv[f]
           n == pos + 1
       IN  IF pos = Len(rows)
           THEN /\ pc' = "for_line"
                /\ UNCHANGED <<pos, text, last_person, file_to_write, total_line,
                               alternations>>
           ELSE IF TooShort(rows[n])
           THEN /\ pc' = "for_line"
                /\ pos' = n
                /\ UNCHANGED <<text, last_person, file_to_write, total_line,
                               alternations>>
           ELSE IF rows[n].sp # last_person
           THEN /\ pos' = n
                /\ file_to_write' = 1
                /\ alternations' = alternations + 1
                /\ IF MessageColumn >= rows[n].nf
                   THEN /\ text' = Write(text, EncDec(0), <<NL>>)
                        /\ pc' = "crashed"
                        /\ UNCHANGED <<last_person, total_line>>
                   ELSE /\ text' = Write(Write(text, EncDec(0), <<NL>>),
                                         EncDec(1), <<Field(f, n, MessageColumn)>>)
                        /\ last_person' = rows[n].sp
                        /\ total_line' = total_line + 1
                        /\ pc' = "for_line"
           ELSE /\ pos' = n
                /\ IF ContinuationColumn >= rows[n].nf
                   THEN /\ pc' = "crashed"
                        /\ UNCHANGED text
                   ELSE /\ text' = Write(text, EncDec(file_to_write),
                                         <<SP, Field(f, n, ContinuationColumn)>>)
                        /\ pc' = "while"
                /\ UNCHANGED <<last_person, file_to_write, total_line,
                               alternations>>
    /\ UNCHANGED <<marker, tsv, disk, present, files, count, str_buffer, row,
                   split, restVars>>

\* One turn of "for line in tsv_file".
ForLine ==
    /\ pc = "for_line"
    /\ pos < Len(tsv[files[count]])
    /\ LET f == files[count]
           n == pos + 1
           r == tsv[f][n]
       IN  /\ pos' = n
           /\ IF r.nf > 3
              THEN IF r.sp # last_person
                   THEN /\ file_to_write' = Toggle(file_to_write)
                        /\ alternations' = alternations + 1
                        /\ last_person' = r.sp
                        /\ IF file_to_write' = 0
                           THEN /\ text' = Write(text, EncDec(1), <<NL>>)
                                /\ str_buffer' = <<Field(f, n, MessageColumn)>>
                                /\ UNCHANGED total_line
                           ELSE /\ str_buffer' = str_buffer \o <<NL>>
                                /\ text' = Write(Write(text, EncDec(0), str_buffer'),
                                                 EncDec(1), <<Field(f, n, MessageColumn)>>)
                                /\ total_line' = total_line + 1
                   ELSE /\ IF file_to_write = 1
                           THEN /\ text' = Write(text, EncDec(1), <<SP, Field(f, n, MessageColumn)>>)
                                /\ UNCHANGED str_buffer
                           ELSE /\ str_buffer' = str_buffer \o <<SP, Field(f, n, MessageColumn)>>
                                /\ UNCHANGED text
                        /\ UNCHANGED <<file_to_write, last_person, total_line,
                                       alternations>>
              ELSE UNCHANGED <<text, str_buffer, file_to_write, last_person,
                               total_line, alternations>>
    /\ pc' = "for_line"
    /\ UNCHANGED <<marker, tsv, disk, present, files, count, row, split, restVars>>

\* The end of the file: the decoder line still open gets its newline.
EndTsv ==
    /\ pc = "for_line"
    /\ pos = Len(tsv[files[count]])
    /\ text' = IF file_to_write = 1 THEN Write(text, EncDec(1), <<NL>>) ELSE text
    /\ count' = count + 1
    /\ pc' = "for_tsv"
    /\ UNCHANGED <<marker, tsv, disk, present, files, str_buffer, total_line,
                   last_person, file_to_write, row, pos, split, alternations,
                   restVars>>

\* The lines a file iterates over: each ends with its newline, but for a last
\* one the file does not terminate.
RECURSIVE LinesFrom(_, _)
LinesFrom(s, cur) ==
    IF s = <<>> THEN (IF cur = <<>> THEN <<>> ELSE <<cur>>)
    ELSE IF Head(s) = NL THEN <<Append(cur, NL)>> \o LinesFrom(Tail(s), <<>>)
    ELSE LinesFrom(Tail(s), Append(cur, Head(s)))

Lines(s) == LinesFrom(s, <<>>)

\* "for line in tmp: if count < split: train.write(line) else: test.write(line)"
RECURSIVE SplitLoop(_, _, _, _)
SplitLoop(ls, cnt, sp, acc) ==
    IF ls = <<>> THEN acc
    ELSE SplitLoop(Tail(ls), cnt + 1, sp,
                   IF cnt < sp
                   THEN [acc EXCEPT !.train = @ \o Head(ls)]
                   ELSE [acc EXCEPT !.test = @ \o Head(ls)])

SplitFile(s, sp) == SplitLoop(Lines(s), 0, sp, [train |-> <<>>, test |-> <<>>])

\* A variant with 3/4 as an integer division.
SplitIndexIntDiv(t) == t * (3 \div 4)

\* int(total_line*(3/4)), with the true division of line 18
SplitIndex(t) == (3 * t) \div 4

SplitEnc ==
    /\ pc = "for_tsv"
    /\ count > Len(files)
    /\ split' = SplitIndex(total_line)
    /\ LET res == SplitFile(text["enc_tmp"], split')
       IN  text' = [text EXCEPT !["train_enc"] = res.train, !["test_enc"] = res.test]
    /\ present' = present \cup {"train_enc", "test_enc"}
    /\ count' = Len(Lines(text["enc_tmp"]))
    /\ pc' = "split_dec"
    /\ UNCHANGED <<marker, tsv, disk, files, str_buffer, total_line, last_person,
                   file_to_write, row, pos, alternations, restVars>>

SplitDec ==
    /\ pc = "split_dec"
    /\ LET res == SplitFile(text["dec_tmp"], split)
       IN  text' = [text EXCEPT !["train_dec"] = res.train, !["test_dec"] = res.test]
    /\ present' = present \cup {"train_dec", "test_dec"}
    /\ count' = Len(Lines(text["dec_tmp"]))
    /\ pc' = "rm_tmp"
    /\ UNCHANGED <<marker, tsv, disk, files, str_buffer, total_line, last_person,
                   file_to_write, row, pos, split, alternations, restVars>>

RemoveTmp ==
    /\ pc = "rm_tmp"
    /\ present' = present \ {"enc_tmp", "dec_tmp"}
    /\ text' = [text EXCEPT !["enc_tmp"] = <<>>, !["dec_tmp"] = <<>>]
    /\ pc' = "done"
    /\ UNCHANGED <<marker, tsv, disk, files, count, str_buffer, total_line,
                   last_person, file_to_write, row, pos, split, alternations,
                   restVars>>

\* ------------------------------------------------------------ vocabulary
\* A word is a sequence of characters.  A line of a data file is given as
\* its whitespace-separated fragments (sentence.strip().split()).
_PAD == <<"_", "P", "A", "D">>
_GO == <<"_", "G", "O">>
_EOS == <<"_", "E", "O", "S">>
_UNK == <<"_", "U", "N", "K">>
_START_VOCAB == <<_PAD, _GO, _EOS, _UNK>>

PAD_ID == 0
GO_ID == 1
EOS_ID == 2
UNK_ID == 3

\* _WORD_SPLIT = re.compile(b"([.,!?\"':;)(])")
Punctuation == {".", ",", "!", "?", "\"", "'", ":", ";", ")", "("}
\* _DIGIT_RE = re.compile(br"\d")
Digits == {"0", "1", "2", "3", "4", "5", "6", "7", "8", "9"}
Whitespace == {" ", "\n", "\t", "\r"}

\* _WORD_SPLIT.split(fragment), without the empty strings: the fragment cut
\* at every punctuation mark, each mark a word of its own.
RECURSIVE WordSplit(_, _)
WordSplit(s, cur) ==
    IF s = <<>> THEN (IF cur = <<>> THEN <<>> ELSE <<cur>>)
    ELSE IF Head(s) \in Punctuation
    THEN (IF cur = <<>> THEN <<>> ELSE <<cur>>) \o <<<<Head(s)>>>>
         \o WordSplit(Tail(s), <<>>)
    ELSE WordSplit(Tail(s), Append(cur, Head(s)))

RECURSIVE basic_tokenizer(_)
basic_tokenizer(sentence) ==
    IF sentence = <<>> THEN <<>>
    ELSE WordSplit(Head(sentence), <<>>) \o basic_tokenizer(Tail(sentence))

\* _DIGIT_RE.sub(b"0", w)
SubDigits(w) == [i \in 1..Len(w) |-> IF w[i] \in Digits THEN "0" ELSE w[i]]

Normalized(w, nd) == IF nd THEN SubDigits(w) ELSE w

\* The words create_vocabulary counts, in the order it meets them.
RECURSIVE CountedWords(_, _)
CountedWords(data, nd) ==
    IF data = <<>> THEN <<>>
    ELSE LET ws == basic_tokenizer(Head(data))
         IN  [i \in 1..Len(ws) |-> Normalized(ws[i], nd)]
             \o CountedWords(Tail(data), nd)

Range(s) == {s[i] : i \in 1..Len(s)}

Occurrences(w, ws) == Cardinality({i \in 1..Len(ws) : ws[i] = w})

\* sorted(vocab, key=vocab.get, reverse=True): the keys by falling count.  The
\* sort is stable, so keys of equal count stay in the dictionary's own order,
\* which is the insertion order or, before Python 3.6, any order: every order
\* of falling counts is an outcome.
SortedByCount(ws) ==
    LET keys == Range(ws)
        n == Cardinality(keys)
    IN  {s \in [1..n -> keys] :
            /\ \A i, j \in 1..n : i # j => s[i] # s[j]
            /\ \A i, j \in 1..n : i < j => Occurrences(s[i], ws) >= Occurrences(s[j], ws)}

\* vocab_list[:max_vocabulary_size] when the list is longer
Truncated(l, n) == IF Len(l) > n THEN SubSeq(l, 1, n) ELSE l

CreateVocabulary(ret) ==
    /\ pc = "create_vocabulary"
    /\ IF "vocab" \in present
       THEN UNCHANGED <<present, vocab_file>>
       ELSE \E order \in SortedByCount(CountedWords(data_file, normalize_digits)) :
              LET vocab_list == Truncated(_START_VOCAB \o order, max_vocabulary_size)
              IN  /\ vocab_file' = [i \in 1..Len(vocab_list) |-> vocab_list[i] \o <<"\n">>]
                  /\ present' = present \cup {"vocab"}
    /\ pc' = ret
    /\ UNCHANGED <<marker, tsv, disk, text, scanVars, argVars, vocab, rev_vocab,
                   ids_file, callVars>>

\* line.strip()
RECURSIVE StripLeft(_)
StripLeft(s) ==
    IF s # <<>> /\ Head(s) \in Whitespace THEN StripLeft(Tail(s)) ELSE s

RECURSIVE StripRight(_)
StripRight(s) ==
    IF s # <<>> /\ s[Len(s)] \in Whitespace
    THEN StripRight(SubSeq(s, 1, Len(s) - 1)) ELSE s

Strip(s) == StripRight(StripLeft(s))

\* rev_vocab = [line.strip() for line in f.readlines()]
RevVocab(lines) == [i \in 1..Len(lines) |-> Strip(lines[i])]

\* dict([(x, y) for (y, x) in enumerate(rev_vocab)]): a word met twice keeps
\* its last index.
VocabDict(rev) ==
    [w \in Range(rev) |->
        (CHOOSE i \in 1..Len(rev) :
            rev[i] = w /\ \A j \in 1..Len(rev) : rev[j] = w => j <= i) - 1]

InitializeVocabulary(ret) ==
    /\ pc = "initialize_vocabulary"
    /\ IF "vocab" \in present
       THEN /\ rev_vocab' = RevVocab(vocab_file)
            /\ vocab' = VocabDict(rev_vocab')
            /\ pc' = ret
       ELSE /\ pc' = "crashed"
            /\ UNCHANGED <<vocab, rev_vocab>>
    /\ UNCHANGED <<fsVars, scanVars, argVars, vocab_file, ids_file, callVars>>

\* vocabulary.get(w, UNK_ID)
Lookup(d, w) == IF w \in DOMAIN d THEN d[w] ELSE UNK_ID

sentence_to_token_ids(sentence, vocabulary, nd) ==
    LET words == basic_tokenizer(sentence)
    IN  [i \in 1..Len(words) |-> Lookup(vocabulary, Normalized(words[i], nd))]

DataToTokenIds(ret) ==
    /\ pc = "data_to_token_ids"
    /\ IF "ids" \in present
       THEN /\ pc' = ret
            /\ UNCHANGED <<present, vocab, rev_vocab, ids_file>>
       ELSE IF "vocab" \notin present
       THEN /\ pc' = "crashed"
            /\ UNCHANGED <<present, vocab, rev_vocab, ids_file>>
       ELSE /\ rev_vocab' = RevVocab(vocab_file)
            /\ vocab' = VocabDict(rev_vocab')
            /\ ids_file' = [i \in 1..Len(data_file) |->
                              sentence_to_token_ids(data_file[i], vocab',
                                                    normalize_digits)]
            /\ present' = present \cup {"ids"}
            /\ pc' = ret
    /\ UNCHANGED <<marker, tsv, disk, text, scanVars, argVars, vocab_file, callVars>>

\* ------------------------------------------------------------ the callers
Steps == {"create_my_dataset", "rm_one_way_conv", "create_vocabulary",
          "data_to_token_ids"}

ScanInit ==
    /\ files = <<>>
    /\ count = 0
    /\ str_buffer = <<>>
    /\ total_line = 0
    /\ last_person = ""
    /\ file_to_write = 0
    /\ row = 0
    /\ pos = 0
    /\ split = 0
    /\ alternations = 0

\* A function is called.
Call ==
    /\ pc = "idle"
    /\ \E s \in Steps : pc' = s /\ step' = s
    /\ UNCHANGED <<fsVars, scanVars, argVars, vocabVars, ran, changed>>

\* The function returns; its local variables are gone.
Return ==
    /\ pc = "done"
    /\ pc' = "idle"
    /\ ran' = ran \cup {step}
    /\ files' = <<>>
    /\ count' = 0
    /\ str_buffer' = <<>>
    /\ total_line' = 0
    /\ last_person' = ""
    /\ file_to_write' = 0
    /\ row' = 0
    /\ pos' = 0
    /\ split' = 0
    /\ alternations' = 0
    /\ UNCHANGED <<fsVars, argVars, vocabVars, step, changed>>

\* A directory of .tsv files: the paths 1..k exist, each with its rows.
IsCorpus(t, d, kinds, nrows, nfiles) ==
    /\ d \in {1..k : k \in 0..nfiles}
    /\ t \in [TsvPaths -> SeqsUpTo(kinds, nrows)]
    /\ \A f \in TsvPaths \ d : t[f] = <<>>

Fragments == {<<"a">>, <<"1">>, <<"2">>, <<"a", ".">>, _PAD}
StepFragments == {<<"a">>, <<"1">>}

DataSet(frags, nlines, nfrags) == SeqsUpTo(SeqsUpTo(frags, nfrags), nlines)

\* Between two calls the inputs change: the .tsv files and the data file.
ChangeInputs ==
    /\ pc = "idle"
    /\ ran # {}
    /\ IsCorpus(tsv', disk', StepRowKinds, StepRows, StepFiles)
    /\ data_file' \in DataSet(StepFragments, StepLines, 1)
    /\ <<tsv', disk', data_file'>> # <<tsv, disk, data_file>>
    /\ changed' = TRUE
    /\ UNCHANGED <<pc, marker, present, text, scanVars, max_vocabulary_size,
                   normalize_digits, vocabVars, step, ran>>

\* --------------------------------------------------------- specifications
InitWith(entry, kinds, nrows, nfiles, datas, sizes, flags, outs) ==
    /\ pc = entry
    /\ step = entry
    /\ ran = {}
    /\ changed = FALSE
    /\ marker \in BOOLEAN
    /\ IsCorpus(tsv, disk, kinds, nrows, nfiles)
    /\ present \in outs
    /\ text = [p \in OutPaths |-> <<>>]
    /\ ScanInit
    /\ data_file \in datas
    /\ max_vocabulary_size \in sizes
    /\ normalize_digits \in flags
    /\ vocab_file = <<>>
    /\ vocab = <<>>
    /\ rev_vocab = <<>>
    /\ ids_file = <<>>

Scan ==
    \/ AlreadyCreated
    \/ FilterCall
    \/ OpenOutputs
    \/ OpenTsv
    \/ WhileStep
    \/ ForLine
    \/ EndTsv
    \/ SplitEnc
    \/ SplitDec
    \/ RemoveTmp

\* create_my_dataset called once on a directory of dialogues.
Init ==
    InitWith("create_my_dataset", RowKinds, MaxRows, MaxFiles, {<<>>},
             {0}, {TRUE}, {{}, {"train_enc", "train_dec"}})

Next == Scan

Spec == Init /\ [][Next]_vars

\* create_my_dataset called once on longer dialogues whose rows have four
\* fields or two.
InitLong ==
    InitWith("create_my_dataset", FullRows, LongRows, MaxFiles, {<<>>},
             {0}, {TRUE}, {{}, {"train_enc", "train_dec"}})

SpecLong == InitLong /\ [][Next]_vars

\* create_vocabulary, initialize_vocabulary and data_to_token_ids, in turn,
\* on a data file.
InitVocab ==
    InitWith("create_vocabulary", RowKinds, 0, 0,
             DataSet(Fragments, MaxLines, MaxFragments), 0..MaxVocabulary,
             BOOLEAN, {{}})

NextVocab ==
    \/ CreateVocabulary("initialize_vocabulary")
    \/ InitializeVocabulary("data_to_token_ids")
    \/ DataToTokenIds("done")

SpecVocab == InitVocab /\ [][NextVocab]_vars

\* The generation steps called again and again, in any order, the inputs
\* changing in between.
InitSteps ==
    InitWith("idle", StepRowKinds, StepRows, StepFiles,
             DataSet(StepFragments, StepLines, 1), {MaxVocabulary}, {TRUE}, {{}})

NextSteps ==
    \/ Call
    \/ Return
    \/ ChangeInputs
    \/ Scan
    \/ RmOneWayConvStep
    \/ CreateVocabulary("done")
    \/ DataToTokenIds("done")

SpecSteps == InitSteps /\ [][NextSteps]_vars

\* ------------------------------------------------------------- the claims
\* What the claims speak of.
Tokens(s) == {s[i] : i \in 1..Len(s)}
IsField(t) == t[1] \in TsvPaths
FieldsOf(s) == {t \in Tokens(s) : IsField(t)}
RowOf(t) == tsv[t[1]][t[2]]
Newlines(s) == Cardinality({i \in 1..Len(s) : s[i] = NL})

RECURSIVE Flatten(_)
Flatten(ls) == IF ls = <<>> THEN <<>> ELSE Head(ls) \o Flatten(Tail(ls))

Take(ls, n) == SubSeq(ls, 1, Min(n, Len(ls)))
Drop(ls, n) == SubSeq(ls, Min(n, Len(ls)) + 1, Len(ls))

\* create_my_dataset has returned after writing its four outputs.
Generated ==
    /\ pc = "done"
    /\ step = "create_my_dataset"
    /\ {"test_enc", "test_dec"} \subseteq present

\* The message text of row r of file f is its last field.
Message(f, r) == Field(f, r, tsv[f][r].nf - 1)

\* Rows i..j of file f are a dialogue turn: a maximal run of rows of one
\* speaker, each with a message. A row without a message bounds a run.
IsTurn(f, i, j) ==
    /\ 1 <= i /\ i <= j /\ j <= Len(tsv[f])
    /\ \A r \in i..j : tsv[f][r].nf >= 3 /\ tsv[f][r].sp = tsv[f][i].sp
    /\ \/ i = 1
       \/ tsv[f][i - 1].nf < 3
       \/ tsv[f][i - 1].sp # tsv[f][i].sp
    /\ \/ j = Len(tsv[f])
       \/ tsv[f][j + 1].nf < 3
       \/ tsv[f][j + 1].sp # tsv[f][i].sp

\* The messages of rows i..j joined by single spaces.
RECURSIVE TurnText(_, _, _)
TurnText(f, i, j) ==
    IF i > j THEN <<>>
    ELSE IF i = j THEN <<Message(f, i)>>
    ELSE <<Message(f, i), SP>> \o TurnText(f, i + 1, j)

WithoutNewline(l) ==
    IF l # <<>> /\ l[Len(l)] = NL THEN SubSeq(l, 1, Len(l) - 1) ELSE l

IsTurnLine(l) ==
    \E f \in TsvPaths : \E i, j \in 1..Len(tsv[f]) :
        IsTurn(f, i, j) /\ WithoutNewline(l) = TurnText(f, i, j)

\* Lines e and d are one exchange: all their text is of one file, the rows
\* of e are of one speaker and come before the rows of d, which are of
\* another speaker.
SameExchange(e, d) ==
    \E f \in TsvPaths :
        /\ FieldsOf(e) # {} /\ FieldsOf(d) # {}
        /\ \A t \in FieldsOf(e) \cup FieldsOf(d) : t[1] = f
        /\ \A t \in FieldsOf(e), u \in FieldsOf(d) :
              t[2] < u[2] /\ RowOf(t).sp # RowOf(u).sp
        /\ \A t, u \in FieldsOf(e) : RowOf(t).sp = RowOf(u).sp
        /\ \A t, u \in FieldsOf(d) : RowOf(t).sp = RowOf(u).sp

Aligned(enc, dec) ==
    /\ Len(Lines(enc)) = Len(Lines(dec))
    /\ \A n \in 1..Min(Len(Lines(enc)), Len(Lines(dec))) :
          SameExchange(Lines(enc)[n], Lines(dec)[n])

\* C1: after create_my_dataset has processed the .tsv files, the encoder and
\* the decoder output have the same number of lines in the train partition
\* and in the test partition, and line N of the one and line N of the other
\* are an exchange of one conversation file, with no text of another file.
C1_OutputsLineAligned ==
    Generated =>
        /\ Aligned(text["train_enc"], text["train_dec"])
        /\ Aligned(text["test_enc"], text["test_dec"])

\* C2: every line written to the encoder or decoder output is one dialogue
\* turn: the messages of a maximal run of consecutive rows of one speaker, in
\* row order, joined by exactly one space.
C2_EveryLineIsATurn ==
    Generated =>
        \A p \in {"train_enc", "train_dec", "test_enc", "test_dec"} :
            \A n \in 1..Len(Lines(text[p])) : IsTurnLine(Lines(text[p])[n])

\* The speaker ids that appear in file f.
SpeakerIds(f) == {tsv[f][i].sp : i \in {k \in 1..Len(tsv[f]) : tsv[f][k].nf >= 2}}

\* C3: a .tsv file in which only one distinct speaker id appears contributes
\* no text and no line to the encoder or decoder outputs, whatever the state
\* of the .one_way_conv_removed marker.
C3_OneSpeakerFileContributesNothing ==
    \A f \in TsvPaths :
        Cardinality(SpeakerIds(f)) = 1 =>
            \A p \in OutPaths : \A t \in FieldsOf(text[p]) : t[1] # f

\* C4: at finalization, with split = floor(3*total_line/4), the training
\* file is exactly the first split lines of the temporary file and the test
\* file exactly the remaining lines in the same order, for the encoder and for
\* the decoder: no line is lost, duplicated or reordered.
C4_SplitKeepsEveryLine ==
    pc = "rm_tmp" =>
        LET s == (3 * total_line) \div 4
            E == Lines(text["enc_tmp"])
            D == Lines(text["dec_tmp"])
        IN  /\ split = s
            /\ text["train_enc"] = Flatten(Take(E, s))
            /\ text["test_enc"] = Flatten(Drop(E, s))
            /\ text["train_dec"] = Flatten(Take(D, s))
            /\ text["test_dec"] = Flatten(Drop(D, s))
            /\ text["train_enc"] \o text["test_enc"] = text["enc_tmp"]
            /\ text["train_dec"] \o text["test_dec"] = text["dec_tmp"]

\* Two exchanges were split: one line in each training file, one in each
\* test file.
C4_Witness ==
    /\ pc = "rm_tmp"
    /\ total_line = 2
    /\ \A p \in {"train_enc", "train_dec", "test_enc", "test_dec"} :
          Len(Lines(text[p])) = 1

\* C5: create_vocabulary followed by initialize_vocabulary is a round trip:
\* the mapping has min(distinct normalized tokens + 4, maximum size) entries
\* and every token written to the file maps to the zero-based index of its
\* line.
C5_VocabularyRoundTrip ==
    (pc = "data_to_token_ids" /\ step = "create_vocabulary") =>
        /\ Cardinality(DOMAIN vocab) =
              Min(Cardinality(Range(CountedWords(data_file, normalize_digits))) + 4,
                  max_vocabulary_size)
        /\ \A i \in 1..Len(vocab_file) :
              LET w == SubSeq(vocab_file[i], 1, Len(vocab_file[i]) - 1)
              IN  w \in DOMAIN vocab /\ vocab[w] = i - 1

\* The files a generation step may create, change or delete.
Outputs == <<marker, disk, present, text, vocab_file, ids_file>>

\* C6: running a generation step a second time after a completed first run
\* is a no-op: no file is created, modified or deleted and no error is raised,
\* even if the inputs changed in between.
C6_SecondRunIsNoOp ==
    [][(pc \in Steps /\ pc \in ran) => (pc' = "done" /\ Outputs' = Outputs)]_vars

\* Every step has run once and written its output, the inputs were changed,
\* and a step is called again.
C6_Witness ==
    /\ pc \in Steps
    /\ ran = Steps
    /\ changed
    /\ Newlines(text["test_enc"]) > 0
    /\ Len(vocab_file) > 4
    /\ ids_file # <<>>

\* The open .tsv file and the row the scan reads next.
Scanning == pc \in {"while", "for_line"}
OpenRows == tsv[files[count]]
NextRow == OpenRows[pos + 1]
ReadsRow == Scanning /\ pos < Len(OpenRows)
ShortRowRead == \E k \in 1..pos : OpenRows[k].nf < 3

ChosenColumn(f) == IF tsv[f][1].nf = 4 THEN 3 ELSE 2

Written == FieldsOf(text["enc_tmp"]) \cup FieldsOf(text["dec_tmp"])

BeforeFirstChange(f, r) ==
    \A k \in 1..r : tsv[f][k].nf >= 3 /\ tsv[f][k].sp = tsv[f][1].sp

AlternationNext ==
    /\ ReadsRow
    /\ IF pc = "while" THEN NextRow.nf >= 3 ELSE NextRow.nf > 3
    /\ NextRow.sp # last_person

\* C9 as claimed: every detected speaker alternation increments the exchange
\* counter by one.
C9_EveryAlternationCounts ==
    [][(AlternationNext /\ pc' # "crashed") => total_line' = total_line + 1]_vars

\* C9 as amended: an alternation that moves the output from the encoder to
\* the decoder file increments the exchange counter by one, unless the row has
\* only 3 fields and IndexError is raised first; an alternation that moves the
\* output back to the encoder file leaves the counter unchanged.
C9_AlternationToDecoderCounts ==
    [][AlternationNext =>
          /\ alternations' = alternations + 1
          /\ total_line' =
                IF pc' = "crashed" THEN total_line
                ELSE IF file_to_write = 0 THEN total_line + 1
                ELSE total_line]_vars

\* Two alternations were detected and one exchange counted.
C9_Witness ==
    /\ pc = "for_line"
    /\ alternations = 2
    /\ total_line = 1
    /\ file_to_write = 0

\* C10: after create_my_dataset finishes scanning each .tsv file, the exchange
\* counter equals the number of newline-terminated lines in the encoder
\* temporary file and in the decoder temporary file.
C10_CounterIsLineCount ==
    (pc = "for_tsv" /\ count > 1) =>
        /\ Newlines(text["enc_tmp"]) = total_line
        /\ Newlines(text["dec_tmp"]) = total_line

====
